---- MODULE Spec2Model ----
(***************************************************************************)
(* puppetdb-python: the endpoint wrappers of puppetdb/v3/metrics.py and    *)
(* puppetdb/v4/events.py and the request dispatcher they delegate to       *)
(* (puppetdb.utils._make_api_request).                                     *)
(*                                                                         *)
(* Text (URLs, paths, names, queries, bodies) is a sequence of one-        *)
(* character strings, so that concatenation, interpolation, URL-encoding   *)
(* and JSON decoding are computed character by character.                  *)
(***************************************************************************)
EXTENDS Integers, Sequences, FiniteSets, TLC

\* Longest query string a caller passes to get_events in SpecSeq.
MaxQueryLen == 2
\* Longest JSON array the remote service answers with in SpecSeq.
MaxBodyLen == 2

VARIABLES
    defaults,   \* wrapper name -> the list object its "cert=list()" default is bound to
    pc,         \* caller -> "idle" | "waiting" | "done"
    call,       \* caller -> the call it made: wrapper and call-site arguments
    requests,   \* caller -> the HTTP requests issued for its current invocation
    response,   \* caller -> what the remote service (or the transport) answered
    outcome     \* caller -> what the wrapper handed back to the caller

vars == <<defaults, pc, call, requests, response, outcome>>

----------------------------------------------------------------------------
(* Text helpers *)

RECURSIVE SeqsUpTo(_, _)
SeqsUpTo(S, n) ==
    IF n = 0 THEN {<<>>}
    ELSE LET P == SeqsUpTo(S, n - 1)
         IN  P \cup {Append(s, c) : s \in {x \in P : Len(x) = n - 1}, c \in S}

RECURSIVE Count(_, _)
Count(c, s) ==
    IF s = <<>> THEN 0
    ELSE (IF Head(s) = c THEN 1 ELSE 0) + Count(c, Tail(s))

RECURSIVE Flatten(_)
Flatten(ss) == IF ss = <<>> THEN <<>> ELSE Head(ss) \o Flatten(Tail(ss))

----------------------------------------------------------------------------
(* Python values *)

PyNone  == [t |-> "none", v |-> <<>>]
PyFalse == [t |-> "bool", v |-> <<"F", "a", "l", "s", "e">>]
PyTrue  == [t |-> "bool", v |-> <<"T", "r", "u", "e">>]
PyStr(s) == [t |-> "str", v |-> s]

\* str(x), as '{0}'.format(x) renders its argument
PyFormat(x) == IF x.t = "none" THEN <<"N", "o", "n", "e">> ELSE x.v

\* A call-site argument: passed by the caller, or left to the parameter default.
Passed(x)    == [given |-> TRUE, val |-> x]
NotGiven     == [given |-> FALSE, val |-> PyNone]
NotGivenText == [given |-> FALSE, val |-> <<>>]
Bind(arg, default) == IF arg.given THEN arg.val ELSE default

----------------------------------------------------------------------------
(* The request dispatcher, puppetdb.utils._make_api_request *)

QuoteChar(c) ==
    CASE c = " "  -> <<"+">>
      [] c = "%"  -> <<"%", "2", "5">>
      [] c = "&"  -> <<"%", "2", "6">>
      [] c = "+"  -> <<"%", "2", "B">>
      [] c = "="  -> <<"%", "3", "D">>
      [] c = "["  -> <<"%", "5", "B">>
      [] c = "]"  -> <<"%", "5", "D">>
      [] c = "\"" -> <<"%", "2", "2">>
      [] c = ","  -> <<"%", "2", "C">>
      [] c = "/"  -> <<"%", "2", "F">>
      [] c = "?"  -> <<"%", "3", "F">>
      [] OTHER    -> <<c>>

quote_plus(s) == Flatten([i \in 1..Len(s) |-> QuoteChar(s[i])])

RECURSIVE urlencode(_)
urlencode(params) ==
    IF params = {} THEN <<>>
    ELSE LET p    == CHOOSE x \in params : TRUE
             rest == params \ {p}
         IN  quote_plus(p[1]) \o <<"=">> \o quote_plus(p[2])
                \o (IF rest = {} THEN <<>> ELSE <<"&">> \o urlencode(rest))

NoParams == {}

\* The one GET the dispatcher issues for (api_url, path, verify, cert, params).
_make_api_request(api_url, path, verify, cert, params) ==
    << [method |-> "GET",
        url    |-> api_url \o path,
        params |-> params,
        target |-> api_url \o path
                     \o (IF params = {} THEN <<>> ELSE <<"?">> \o urlencode(params)),
        verify |-> verify,
        cert   |-> cert] >>

Digits == {"1", "2"}
DigitVal(c) == IF c = "1" THEN 1 ELSE 2

IsArrayText(b) ==
    /\ Len(b) >= 2
    /\ b[1] = "[" /\ b[Len(b)] = "]"
    /\ \/ Len(b) = 2
       \/ /\ Len(b) % 2 = 1
          /\ \A i \in 2..(Len(b) - 1) :
                IF i % 2 = 0 THEN b[i] \in Digits ELSE b[i] = ","

\* json.loads on the response body
JsonLoads(b) ==
    IF b = <<"{", "}">>
      THEN [ok |-> TRUE, value |-> [t |-> "object", v |-> <<>>]]
    ELSE IF IsArrayText(b)
      THEN [ok |-> TRUE,
            value |-> [t |-> "array",
                       v |-> [i \in 1..((Len(b) - 1) \div 2) |-> DigitVal(b[2 * i])]]]
    ELSE [ok |-> FALSE, value |-> PyNone]

Returned(value)      == [kind |-> "ok", status |-> 0, value |-> value]
Raised(kind, status) == [kind |-> kind, status |-> status, value |-> PyNone]

\* What the dispatcher hands back for a response.
DispatchResult(resp) ==
    IF resp.kind = "transport" THEN Raised("TransportError", 0)
    ELSE IF ~(resp.status >= 200 /\ resp.status < 300)
      THEN Raised("HttpError", resp.status)
    ELSE LET d == JsonLoads(resp.body)
         IN  IF d.ok THEN Returned(d.value) ELSE Raised("DecodeError", 0)

----------------------------------------------------------------------------
(* puppetdb/v3/metrics.py and puppetdb/v4/events.py *)

Wrappers == {"get_metric_names", "get_metrics_by_name", "get_events"}

MetricNamesPath == <<"/", "m", "e", "t", "r", "i", "c", "s", "/", "m", "b", "e", "a", "n", "s">>
MetricByNamePrefix == <<"/", "m", "e", "t", "r", "i", "c", "s", "/", "m", "b", "e", "a", "n", "/">>
EventsPath == <<"/", "e", "v", "e", "n", "t", "s">>
QueryKey == <<"q", "u", "e", "r", "y">>

\* Mutant: the listing path written without its final 's' and with a '/'.
get_metric_names_mbean(api_url, verify, cert) ==
    _make_api_request(api_url, MetricByNamePrefix,
                      Bind(verify, PyFalse),
                      Bind(cert, defaults["get_metric_names"]),
                      NoParams)

get_metric_names(api_url, verify, cert) ==
    _make_api_request(api_url, MetricNamesPath,
                      Bind(verify, PyFalse),
                      Bind(cert, defaults["get_metric_names"]),
                      NoParams)

\* Mutant: verify is not forwarded; the request is made with verify=False.
get_metrics_by_name_noverify(api_url, metric_name, verify, cert) ==
    _make_api_request(api_url, MetricByNamePrefix \o PyFormat(Bind(metric_name, PyNone)),
                      PyFalse,
                      Bind(cert, defaults["get_metrics_by_name"]),
                      NoParams)

\* Mutant: the metric name is URL-quoted before it is put into the path.
get_metrics_by_name_quoted(api_url, metric_name, verify, cert) ==
    _make_api_request(api_url,
                      MetricByNamePrefix \o quote_plus(PyFormat(Bind(metric_name, PyNone))),
                      Bind(verify, PyFalse),
                      Bind(cert, defaults["get_metrics_by_name"]),
                      NoParams)

get_metrics_by_name(api_url, metric_name, verify, cert) ==
    _make_api_request(api_url, MetricByNamePrefix \o PyFormat(Bind(metric_name, PyNone)),
                      Bind(verify, PyFalse),
                      Bind(cert, defaults["get_metrics_by_name"]),
                      NoParams)

\* Mutant: the query is normalised (blanks removed) before it is sent.
NotBlank(c) == c # " "
get_events_normalised(api_url, query, verify, cert) ==
    _make_api_request(api_url, EventsPath,
                      Bind(verify, PyFalse),
                      Bind(cert, defaults["get_events"]),
                      {<<QueryKey, SelectSeq(Bind(query, <<>>), NotBlank)>>})

\* Mutant: the parameter is attached only when the query is not empty.
get_events_optional(api_url, query, verify, cert) ==
    _make_api_request(api_url, EventsPath,
                      Bind(verify, PyFalse),
                      Bind(cert, defaults["get_events"]),
                      IF Bind(query, <<>>) = <<>> THEN NoParams
                      ELSE {<<QueryKey, Bind(query, <<>>)>>})

get_events(api_url, query, verify, cert) ==
    _make_api_request(api_url, EventsPath,
                      Bind(verify, PyFalse),
                      Bind(cert, defaults["get_events"]),
                      {<<QueryKey, Bind(query, <<>>)>>})

\* Mutant: an empty (falsy) result is turned into an error.
WrapperReturn_falsy_error(w, result) ==
    IF result.kind = "ok" /\ result.value.v = <<>> THEN Raised("DecodeError", 0) ELSE result

\* Mutant: every exception is re-raised as one generic error.
WrapperReturn_generic(w, result) ==
    IF result.kind # "ok" THEN Raised("Error", 0) ELSE result

\* Mutant: an exception is caught and an empty list returned in its place.
WrapperReturn_swallow(w, result) ==
    IF result.kind # "ok" THEN Returned([t |-> "array", v |-> <<>>]) ELSE result

\* Mutant: calls share one connection, which fails when two are in flight.
WrapperReturn_shared(w, result) ==
    IF Cardinality({u \in DOMAIN pc : pc[u] = "waiting"}) > 1
      THEN Raised("TransportError", 0) ELSE result

\* "return utils._make_api_request(...)": the dispatcher's result, value or
\* exception, is the wrapper's result.
WrapperReturn(w, result) == result

\* Mutant: a passed certificate is added to the wrapper's default list.
DefaultsAfterCall_retain(w, cert) ==
    [defaults EXCEPT ![w] = IF cert.given THEN @ \o cert.val ELSE @]

\* The wrappers only read cert: the default list objects stay as they are.
DefaultsAfterCall(w, cert) == defaults

----------------------------------------------------------------------------
(* Callers and the remote service *)

Threads == {1, 2}

ApiUrls == {<<"h", "t", "t", "p", ":", "/", "/", "a">>,
            <<"h", "t", "t", "p", "s", ":", "/", "/", "b", "/", "v", "3">>}
CaBundle == PyStr(<<"/", "c", "a">>)
VerifyArgs == {NotGiven, Passed(PyTrue), Passed(CaBundle)}
CertFile == <<"c", ".", "p", "e", "m">>
KeyFile  == <<"k", ".", "p", "e", "m">>
CertArgs == {NotGivenText, Passed(<<CertFile>>), Passed(<<CertFile, KeyFile>>)}
SlashName == PyStr(<<"a", "/", "b">>)
MarkName  == PyStr(<<"a", "?", "b">>)
MetricNameArgs == {NotGiven, Passed(PyStr(<<"m">>)), Passed(SlashName), Passed(MarkName)}
QueryChars == {"a", "[", "=", "&", "%", " "}
QueryArgs == {NotGivenText} \cup {Passed(q) : q \in SeqsUpTo(QueryChars, MaxQueryLen)}

CallsOf(U, V, C, M, Q) ==
    {[w |-> "get_metric_names", api_url |-> u, metric_name |-> NotGiven,
      query |-> NotGivenText, verify |-> v, cert |-> c] : u \in U, v \in V, c \in C}
    \cup
    {[w |-> "get_metrics_by_name", api_url |-> u, metric_name |-> m,
      query |-> NotGivenText, verify |-> v, cert |-> c] : u \in U, v \in V, c \in C, m \in M}
    \cup
    {[w |-> "get_events", api_url |-> u, metric_name |-> NotGiven,
      query |-> q, verify |-> v, cert |-> c] : u \in U, v \in V, c \in C, q \in Q}

AllCalls == CallsOf(ApiUrls, VerifyArgs, CertArgs, MetricNameArgs, QueryArgs)
SmallCalls == CallsOf(ApiUrls, {NotGiven, Passed(PyTrue)}, CertArgs,
                      {NotGiven, Passed(SlashName)},
                      {NotGivenText, Passed(<<"[", "&">>)})

\* The remote service's JSON text of an array of the numbers 1 and 2.
RECURSIVE JsonItems(_)
JsonItems(a) ==
    IF a = <<>> THEN <<>>
    ELSE <<(IF Head(a) = 1 THEN "1" ELSE "2")>>
           \o (IF Tail(a) = <<>> THEN <<>> ELSE <<",">> \o JsonItems(Tail(a)))
JsonDumps(a) == <<"[">> \o JsonItems(a) \o <<"]">>

Arrays == SeqsUpTo({1, 2}, MaxBodyLen)
ObjectBody == <<"{", "}">>
HtmlBody == <<"<", "h", ">">>
TruncatedBody == <<"[", "1">>
Bodies == {JsonDumps(a) : a \in Arrays} \cup {ObjectBody, HtmlBody, TruncatedBody, <<>>}

Transport == [kind |-> "transport", status |-> 0, body |-> <<>>]
Http(s, b) == [kind |-> "http", status |-> s, body |-> b]
AllResponses ==
    {Transport} \cup {Http(200, b) : b \in Bodies} \cup {Http(201, ObjectBody)}
    \cup {Http(s, b) : s \in {404, 500}, b \in {ObjectBody, HtmlBody}}
SmallResponses ==
    {Transport, Http(200, JsonDumps(<<>>)), Http(200, JsonDumps(<<2, 1>>)),
     Http(200, TruncatedBody), Http(404, ObjectBody)}

NoCall == [w |-> "none", api_url |-> <<>>, metric_name |-> NotGiven,
           query |-> NotGivenText, verify |-> NotGiven, cert |-> NotGivenText]
NoResponse == [kind |-> "none", status |-> 0, body |-> <<>>]
NoOutcome == [kind |-> "none", status |-> 0, value |-> PyNone]

\* The wrapper a call names, applied to the call's arguments.
Invoke(c) ==
    CASE c.w = "get_metric_names" -> get_metric_names(c.api_url, c.verify, c.cert)
      [] c.w = "get_metrics_by_name" ->
            get_metrics_by_name(c.api_url, c.metric_name, c.verify, c.cert)
      [] c.w = "get_events" -> get_events(c.api_url, c.query, c.verify, c.cert)

Init ==
    /\ defaults = [w \in Wrappers |-> <<>>]
    /\ pc = [t \in Threads |-> "idle"]
    /\ call = [t \in Threads |-> NoCall]
    /\ requests = [t \in Threads |-> <<>>]
    /\ response = [t \in Threads |-> NoResponse]
    /\ outcome = [t \in Threads |-> NoOutcome]

\* A caller invokes a wrapper: the wrapper builds its request and the
\* dispatcher sends it.
DoCall(t, Calls) ==
    /\ pc[t] = "idle"
    /\ \E c \in Calls :
          /\ call' = [call EXCEPT ![t] = c]
          /\ requests' = [requests EXCEPT ![t] = Invoke(c)]
          /\ defaults' = DefaultsAfterCall(c.w, c.cert)
    /\ pc' = [pc EXCEPT ![t] = "waiting"]
    /\ response' = [response EXCEPT ![t] = NoResponse]
    /\ outcome' = [outcome EXCEPT ![t] = NoOutcome]

\* The exchange ends (an answer, or a transport failure) and the wrapper
\* returns or raises.
DoRespond(t, Resps) ==
    /\ pc[t] = "waiting"
    /\ \E r \in Resps :
          /\ response' = [response EXCEPT ![t] = r]
          /\ outcome' = [outcome EXCEPT ![t] = WrapperReturn(call[t].w, DispatchResult(r))]
    /\ pc' = [pc EXCEPT ![t] = "done"]
    /\ UNCHANGED <<defaults, call, requests>>

\* The caller has taken the result (or caught the exception): the invocation
\* is over and nothing of it is kept.
DoFinish(t) ==
    /\ pc[t] = "done"
    /\ pc' = [pc EXCEPT ![t] = "idle"]
    /\ call' = [call EXCEPT ![t] = NoCall]
    /\ requests' = [requests EXCEPT ![t] = <<>>]
    /\ response' = [response EXCEPT ![t] = NoResponse]
    /\ outcome' = [outcome EXCEPT ![t] = NoOutcome]
    /\ UNCHANGED defaults

Call(t) == DoCall(t, SmallCalls)
Respond(t) == DoRespond(t, SmallResponses)
Finish(t) == DoFinish(t)
Next == \E t \in Threads : Call(t) \/ Respond(t) \/ Finish(t)
Spec == Init /\ [][Next]_vars

CallSeq == DoCall(1, AllCalls)
RespondSeq == DoRespond(1, AllResponses)
FinishSeq == DoFinish(1)
NextSeq == CallSeq \/ RespondSeq \/ FinishSeq
SpecSeq == Init /\ [][NextSeq]_vars

----------------------------------------------------------------------------
(* What the claims are stated with: the texts the specification names, and *)
(* the remote service's reading of a request target.                       *)

ExpectGet == "GET"
ExpectNamesPath == <<"/", "m", "e", "t", "r", "i", "c", "s">> \o <<"/", "m", "b", "e", "a", "n", "s">>
ExpectByNamePath == <<"/", "m", "e", "t", "r", "i", "c", "s">> \o <<"/", "m", "b", "e", "a", "n", "/">>
ExpectEventsPath == <<"/", "e", "v", "e", "n", "t", "s">>
ExpectQueryKey == <<"q", "u", "e", "r", "y">>
ExpectNoneText == <<"N", "o", "n", "e">>

Active(t) == pc[t] # "idle"
Req(t) == requests[t][1]
PathOf(t) == SubSeq(Req(t).url, Len(call[t].api_url) + 1, Len(Req(t).url))
NameText(t) ==
    IF call[t].metric_name.given THEN call[t].metric_name.val.v ELSE ExpectNoneText

HexPairs ==
    {<<"2", "5", "%">>, <<"2", "6", "&">>, <<"2", "B", "+">>, <<"3", "D", "=">>,
     <<"5", "B", "[">>, <<"5", "D", "]">>, <<"2", "2", "\"">>, <<"2", "C", ",">>,
     <<"2", "F", "/">>, <<"3", "F", "?">>, <<"2", "0", " ">>}

RECURSIVE unquote_plus(_)
unquote_plus(s) ==
    IF s = <<>> THEN <<>>
    ELSE IF Head(s) = "+" THEN <<" ">> \o unquote_plus(Tail(s))
    ELSE IF /\ Head(s) = "%"
            /\ Len(s) >= 3
            /\ \E h \in HexPairs : h[1] = s[2] /\ h[2] = s[3]
      THEN LET h == CHOOSE h \in HexPairs : h[1] = s[2] /\ h[2] = s[3]
           IN  <<h[3]>> \o unquote_plus(SubSeq(s, 4, Len(s)))
    ELSE <<Head(s)>> \o unquote_plus(Tail(s))

First(s, c) == CHOOSE i \in 1..Len(s) : s[i] = c /\ \A j \in 1..(i - 1) : s[j] # c
Has(s, c) == \E i \in 1..Len(s) : s[i] = c

RECURSIVE SplitOn(_, _)
SplitOn(s, c) ==
    IF ~Has(s, c) THEN <<s>>
    ELSE <<SubSeq(s, 1, First(s, c) - 1)>> \o SplitOn(SubSeq(s, First(s, c) + 1, Len(s)), c)

KeyValue(piece) ==
    IF Has(piece, "=")
      THEN <<unquote_plus(SubSeq(piece, 1, First(piece, "=") - 1)),
             unquote_plus(SubSeq(piece, First(piece, "=") + 1, Len(piece)))>>
      ELSE <<unquote_plus(piece), <<>>>>

\* The parameters the remote service reads off a request target.
ServerParams(target) ==
    IF ~Has(target, "?") THEN {}
    ELSE LET qs == SubSeq(target, First(target, "?") + 1, Len(target))
             ps == SplitOn(qs, "&")
         IN  {KeyValue(ps[i]) : i \in {j \in 1..Len(ps) : ps[j] # <<>>}}

IsFailure(resp) ==
    \/ resp.kind = "transport"
    \/ resp.kind = "http" /\ (resp.status < 200 \/ resp.status > 299)
    \/ resp.kind = "http" /\ resp.body \notin ({JsonDumps(a) : a \in Arrays} \cup {ObjectBody})

----------------------------------------------------------------------------
(* Claims *)

\* C1: every invocation of a wrapper issues exactly one request, a GET, whose
\* URL is api_url followed by the wrapper's path ('/metrics/mbeans',
\* '/metrics/mbean/<metric_name>', '/events'); there is still exactly that one
\* request when the exchange has ended, in success or in failure.
C1_OneGetToUrlPlusPath ==
    \A t \in Threads : Active(t) =>
        /\ Len(requests[t]) = 1
        /\ Req(t).method = ExpectGet
        /\ Req(t).url = call[t].api_url \o
              (CASE call[t].w = "get_metric_names" -> ExpectNamesPath
                 [] call[t].w = "get_metrics_by_name" -> ExpectByNamePath \o NameText(t)
                 [] call[t].w = "get_events" -> ExpectEventsPath)

C1_Witness ==
    /\ pc[1] = "done"
    /\ call[1].w = "get_metric_names"
    /\ outcome[1].kind = "TransportError"
    /\ Len(requests[1]) = 1
    /\ Req(1).url = call[1].api_url \o ExpectNamesPath

\* C2: a query string q given to get_events travels as the one parameter
\* 'query' with value q, character for character: in the parameter mapping
\* handed to the dispatcher and in what the remote service reads off the
\* URL-encoded request target.
C2_QueryForwardedVerbatim ==
    \A t \in Threads : (Active(t) /\ call[t].w = "get_events" /\ call[t].query.given) =>
        /\ Req(t).params = {<<ExpectQueryKey, call[t].query.val>>}
        /\ ServerParams(Req(t).target) = {<<ExpectQueryKey, call[t].query.val>>}

C2_Witness ==
    /\ Active(1)
    /\ call[1].w = "get_events"
    /\ call[1].query = Passed(<<"&", " ">>)
    /\ Req(1).target = call[1].api_url \o ExpectEventsPath
                         \o <<"?", "q", "u", "e", "r", "y", "=", "%", "2", "6", "+">>
    /\ ServerParams(Req(1).target) = {<<ExpectQueryKey, <<"&", " ">>>>}

\* C3: when the remote service answers 200 with a JSON array, the wrapper
\* returns that array, same elements in the same order; the empty array is
\* returned as the empty sequence, not as an error.
C3_ArrayReturnedUnchanged ==
    \A t \in Threads : \A a \in Arrays :
        (pc[t] = "done" /\ response[t] = Http(200, JsonDumps(a))) =>
            /\ outcome[t].kind = "ok"
            /\ outcome[t].value.t = "array"
            /\ outcome[t].value.v = a

C3_Witness ==
    /\ pc[1] = "done"
    /\ call[1].w = "get_metric_names"
    /\ response[1] = Http(200, <<"[", "]">>)
    /\ outcome[1].kind = "ok"
    /\ outcome[1].value.v = <<>>

C5_FailuresPropagate ==
    \A t \in Threads : (pc[t] = "done" /\ DispatchResult(response[t]).kind # "ok") =>
        /\ outcome[t] = DispatchResult(response[t])
        /\ outcome[t].value = PyNone
        /\ Len(requests[t]) = 1

C5_Witness ==
    /\ pc[1] = "done"
    /\ call[1].w = "get_events"
    /\ response[1] = Http(200, TruncatedBody)
    /\ outcome[1].kind = "DecodeError"
    /\ Len(requests[1]) = 1

\* C6: no call leaves anything behind: the default certificate of every
\* wrapper stays empty, a call that omits cert sends the empty certificate
\* whatever other calls passed, and calls with equal arguments send equal
\* requests.
C6_NothingRetained ==
    /\ \A w \in Wrappers : defaults[w] = <<>>
    /\ \A t \in Threads : (Active(t) /\ ~call[t].cert.given) => Req(t).cert = <<>>
    /\ \A t, u \in Threads : (Active(t) /\ Active(u) /\ call[t] = call[u]) =>
          requests[t] = requests[u]

C6_Witness ==
    /\ pc[1] = "done"
    /\ call[1].w = "get_events"
    /\ call[1].cert = Passed(<<CertFile, KeyFile>>)
    /\ pc[2] = "waiting"
    /\ call[2].w = "get_events"
    /\ ~call[2].cert.given
    /\ Req(2).cert = <<>>

C8_VerifyAndCertPassedThrough ==
    \A t \in Threads : Active(t) =>
        /\ Req(t).verify = (IF call[t].verify.given THEN call[t].verify.val
                            ELSE [t |-> "bool", v |-> <<"F", "a", "l", "s", "e">>])
        /\ Req(t).cert = (IF call[t].cert.given THEN call[t].cert.val ELSE <<>>)

C8_Witness ==
    /\ Active(1)
    /\ call[1].w = "get_metrics_by_name"
    /\ call[1].verify = Passed(CaBundle)
    /\ call[1].cert = Passed(<<CertFile, KeyFile>>)
    /\ Req(1).verify = CaBundle
    /\ Req(1).cert = <<CertFile, KeyFile>>

\* C9: get_metrics_by_name's path is '/metrics/mbean/' followed by the text of
\* metric_name as it is: every '/' and '?' of the name is in the path, and an
\* omitted name gives '/metrics/mbean/None', which is requested and is not
\* the listing path.
C9_NameInterpolatedUnescaped ==
    \A t \in Threads : (Active(t) /\ call[t].w = "get_metrics_by_name") =>
        /\ Len(requests[t]) = 1
        /\ PathOf(t) = ExpectByNamePath \o NameText(t)
        /\ Count("/", PathOf(t)) = 3 + Count("/", NameText(t))
        /\ Count("?", PathOf(t)) = Count("?", NameText(t))
        /\ ~call[t].metric_name.given =>
              /\ PathOf(t) = ExpectByNamePath \o <<"N", "o", "n", "e">>
              /\ PathOf(t) # ExpectNamesPath

C9_Witness ==
    /\ Active(1)
    /\ call[1].w = "get_metrics_by_name"
    /\ call[1].metric_name = Passed(SlashName)
    /\ Count("/", PathOf(1)) = 4

\* C10: get_events always sends the parameter mapping with the single key
\* 'query', with the empty string as its value when query is omitted;
\* get_metric_names and get_metrics_by_name send no parameter.
C10_QueryOnlyFromEvents ==
    \A t \in Threads : Active(t) =>
        IF call[t].w = "get_events"
          THEN /\ Cardinality(Req(t).params) = 1
               /\ \A p \in Req(t).params : p[1] = ExpectQueryKey
               /\ ~call[t].query.given =>
                     /\ Req(t).params = {<<ExpectQueryKey, <<>>>>}
                     /\ Req(t).target = Req(t).url \o <<"?", "q", "u", "e", "r", "y", "=">>
          ELSE /\ Req(t).params = {}
               /\ Req(t).target = Req(t).url

C10_Witness ==
    /\ Active(1)
    /\ call[1].w = "get_events"
    /\ ~call[1].query.given
    /\ Req(1).params = {<<ExpectQueryKey, <<>>>>}

====
